---- MODULE Spec2Model ----
(***************************************************************************)
(* The generic utility interfaces of nipype/interfaces/utility.py          *)
(* (IdentityInterface, Merge, Split, Select, Function) as one state        *)
(* machine: a node is constructed, the caller assigns input traits, calls  *)
(* run() and reads the returned result.                                    *)
(***************************************************************************)
EXTENDS Integers, Sequences, FiniteSets, TLC

(***************************************************************************)
(* Bounds of the model.                                                    *)
(***************************************************************************)
\* longest inlist of Split and Select
MaxLen == 3
\* longest list assigned to any other input trait
MaxSeq == 2
\* largest numinputs of a Merge node
MaxInputs == 2
\* largest integer in Split's splits and in Select's index
MaxInt == 2

(***************************************************************************)
(* Values.  A Python scalar is an atom: an int n, or the str whose text is *)
(* the decimal of n (so that numpy's int -> str coercion is Int(n) ->      *)
(* Str(n)).  A trait value is Undefined, None, an atom, a list or tuple of *)
(* atoms, or a list of lists of atoms.  All values are records of one      *)
(* shape, told apart by the tag k.                                         *)
(***************************************************************************)
Int_(n) == [ty |-> "int", n |-> n]
Str_(n) == [ty |-> "str", n |-> n]

Undefined == [k |-> "undefined", a |-> Int_(0), l |-> <<>>, r |-> <<>>]
None      == [k |-> "none", a |-> Int_(0), l |-> <<>>, r |-> <<>>]
Scalar(x) == [k |-> "scalar", a |-> x, l |-> <<>>, r |-> <<>>]
List(s)   == [k |-> "list", a |-> Int_(0), l |-> s, r |-> <<>>]
Tuple(s)  == [k |-> "tuple", a |-> Int_(0), l |-> s, r |-> <<>>]
Rows(rr)  == [k |-> "rows", a |-> Int_(0), l |-> <<>>, r |-> rr]

isdefined(v) == v.k # "undefined"

SeqsUpTo(S, n) == UNION {[1..m -> S] : m \in 0..n}

\* sample scalars: two ints and a str
Atoms == {Int_(1), Int_(2), Str_(2)}
IntAtoms == {Int_(1), Int_(2)}

\* kind          the interface class of the node
\* _fields       IdentityInterface._fields
\* numinputs     Merge.numinputs
\* axis          Merge's inputs.axis
\* _input_names, _output_names, function_str, _out   Function's attributes
\* inputs        the input traits the caller assigns, by name
\* result        what the last operation handed back to the caller
VARIABLES kind, _fields, numinputs, axis, _input_names, _output_names,
          function_str, inputs, _out, result

vars == <<kind, _fields, numinputs, axis, _input_names, _output_names,
          function_str, inputs, _out, result>>

(***************************************************************************)
(* The value run() hands back: status "returned" with the runtime's        *)
(* returncode and the output traits, or "raised" with the exception that   *)
(* left run().  "none" when the last operation was not a run.              *)
(***************************************************************************)
NoResult == [status |-> "none", returncode |-> 0, error |-> "", outputs |-> <<>>]
Returned(rc, outs) == [status |-> "returned", returncode |-> rc, error |-> "", outputs |-> outs]
Raised(e) == [status |-> "raised", returncode |-> 0, error |-> e, outputs |-> <<>>]

Range(s) == {s[i] : i \in DOMAIN s}

\* what a _list_outputs / _run_interface step yields: the exception that
\* left it ("" when none) and the outputs mapping it returned
Ok(outs) == [exc |-> "", outputs |-> outs]
Exc(e) == [exc |-> e, outputs |-> <<>>]

(***************************************************************************)
(* IdentityInterface                                                       *)
(***************************************************************************)
IdentityAddOutputTraits(flds) == [key \in Range(flds) |-> Undefined]

\* mutant: an undefined input is propagated as an explicit None
IdentityListOutputsNone(flds, inp) ==
  Ok([key \in Range(flds) |-> IF isdefined(inp[key]) THEN inp[key] ELSE None])

IdentityListOutputs(flds, inp) ==
  LET outputs == IdentityAddOutputTraits(flds)
  IN  Ok([key \in DOMAIN outputs |->
            IF isdefined(inp[key]) THEN inp[key] ELSE outputs[key]])

(***************************************************************************)
(* Merge                                                                   *)
(***************************************************************************)
\* 'in%d' % i
InName(i) == <<"in1", "in2", "in3", "in4", "in5", "in6">>[i]

MergeInputNames(n) == {InName(i) : i \in 1..n}

\* filename_to_list: a list is kept, a single value becomes a one-element
\* list; anything else has no sequence form
IsListable(v) == v.k \in {"list", "scalar"}
filename_to_list(v) == IF v.k = "list" THEN v.l ELSE <<v.a>>

RECURSIVE MergeVstackFrom(_, _, _)
MergeVstackFrom(idx, n, inp) ==
  IF idx > n THEN <<>>
  ELSE LET value == inp[InName(idx)]
           here == IF isdefined(value)
                     THEN IF value.k = "list" THEN value.l ELSE <<value.a>>
                     ELSE <<>>
       IN  here \o MergeVstackFrom(idx + 1, n, inp)

\* mutant: the loop starts one input late, range(1, numinputs)
MergeVstackSkipFirst(n, inp) == MergeVstackFrom(2, n, inp)

MergeVstack(n, inp) == MergeVstackFrom(1, n, inp)

\* the cells (i, j) of the row loop at which an exception is raised
MergeHstackBad(n, inp) ==
  {c \in (1..Len(filename_to_list(inp[InName(1)]))) \X (1..n) :
      \/ ~IsListable(inp[InName(c[2])])
      \/ c[1] > Len(filename_to_list(inp[InName(c[2])]))}

MergeHstackFirstBad(n, inp) ==
  CHOOSE c \in MergeHstackBad(n, inp) :
    \A d \in MergeHstackBad(n, inp) :
      c[1] < d[1] \/ (c[1] = d[1] /\ c[2] <= d[2])

\* mutant: a row is filled from inN down to in1
MergeHstackRowsReversed(n, inp) ==
  [i \in 1..Len(filename_to_list(inp[InName(1)])) |->
     [j \in 1..n |-> filename_to_list(inp[InName(n + 1 - j)])[i]]]

MergeHstackRows(n, inp) ==
  [i \in 1..Len(filename_to_list(inp[InName(1)])) |->
     [j \in 1..n |-> filename_to_list(inp[InName(j)])[i]]]

MergeOut(out) == [out |-> out]

\* mutant: out is stored without the test of line 107, empty or not
MergeListOutputsNoGuard(n, ax, inp) ==
  IF ax = "vstack" THEN Ok(MergeOut(List(MergeVstack(n, inp))))
  ELSE IF n = 0 THEN Exc("AttributeError")
  ELSE IF ~IsListable(inp[InName(1)]) THEN Exc("TypeError")
  ELSE IF MergeHstackBad(n, inp) # {}
    THEN LET c == MergeHstackFirstBad(n, inp)
         IN  IF ~IsListable(inp[InName(c[2])])
               THEN Exc("TypeError") ELSE Exc("IndexError")
  ELSE Ok(MergeOut(Rows(MergeHstackRows(n, inp))))

MergeListOutputs(n, ax, inp) ==
  LET outputs == MergeOut(Undefined)
  IN  IF ax = "vstack"
        THEN LET out == MergeVstack(n, inp)
             IN  Ok(IF out # <<>> THEN MergeOut(List(out)) ELSE outputs)
        ELSE IF n = 0 THEN Exc("AttributeError")
        ELSE IF ~IsListable(inp[InName(1)]) THEN Exc("TypeError")
        ELSE IF MergeHstackBad(n, inp) # {}
          THEN LET c == MergeHstackFirstBad(n, inp)
               IN  IF ~IsListable(inp[InName(c[2])])
                     THEN Exc("TypeError") ELSE Exc("IndexError")
        ELSE LET out == MergeHstackRows(n, inp)
             IN  Ok(IF out # <<>> THEN MergeOut(Rows(out)) ELSE outputs)

(***************************************************************************)
(* numpy: np.array(list) gives every element one dtype, so a list that     *)
(* holds a str turns its ints into their text; .tolist() keeps that.       *)
(***************************************************************************)
NpArray(l) ==
  IF \E i \in DOMAIN l : l[i].ty = "str"
    THEN [i \in DOMAIN l |-> Str_(l[i].n)]
    ELSE l

RECURSIVE sum(_)
sum(l) == IF l = <<>> THEN 0 ELSE Head(l).n + sum(Tail(l))

\* np.cumsum([0] + splits)[i], i zero-based
cumsum(splits, i) == sum(SubSeq(splits, 1, i))

(***************************************************************************)
(* Split                                                                   *)
(***************************************************************************)
\* 'out%d' % i
OutName(i) == <<"out1", "out2", "out3", "out4", "out5", "out6">>[i]

SplitAddOutputTraits(inp) ==
  [key \in {OutName(i) : i \in 1..Len(inp.splits.l)} |-> Undefined]

\* mutant: the sum of splits is not compared with the length of inlist
\* (a slice past the end is clamped)
SplitListOutputsNoCheck(inp) ==
  LET outputs == SplitAddOutputTraits(inp)
      splits == inp.splits.l
      inlist == inp.inlist.l
      Min(x, y) == IF x < y THEN x ELSE y
  IN  Ok([key \in DOMAIN outputs |->
            LET i == CHOOSE i \in 1..Len(splits) : OutName(i) = key
            IN  List(SubSeq(NpArray(inlist),
                            cumsum(splits, i - 1) + 1,
                            Min(cumsum(splits, i), Len(inlist))))])

SplitListOutputs(inp) ==
  LET outputs == SplitAddOutputTraits(inp)
      splits == inp.splits.l
      inlist == inp.inlist.l
  IN  IF isdefined(inp.splits)
        THEN IF sum(splits) # Len(inlist)
               THEN Exc("RuntimeError")
               ELSE Ok([key \in DOMAIN outputs |->
                         LET i == CHOOSE i \in 1..Len(splits) : OutName(i) = key
                         IN  List(SubSeq(NpArray(inlist),
                                         cumsum(splits, i - 1) + 1,
                                         cumsum(splits, i)))])
        ELSE Ok(outputs)

(***************************************************************************)
(* Select                                                                  *)
(***************************************************************************)
\* OutputMultiPath: a one-element list reads back as the bare element
OutputMultiPath(l) ==
  IF Len(l) = 0 THEN Undefined
  ELSE IF Len(l) = 1 THEN Scalar(l[1])
  ELSE List(l)

SelectListOutputs(inp) ==
  LET inlist == inp.inlist.l
      index == inp.index.l
  IN  IF \E i \in DOMAIN index : index[i].n >= Len(inlist)
        THEN Exc("IndexError")
        ELSE LET out == [i \in DOMAIN index |-> NpArray(inlist)[index[i].n + 1]]
             IN  Ok([out |-> List(out)])

(***************************************************************************)
(* Function.  function_str is source text the caller supplies; the model   *)
(* draws it from a few definitions, each named by what it returns.         *)
(*   add    def func(arg1, arg2=5): return arg1 + arg2                     *)
(*   pair   def func(arg1, arg2=5): return arg1, arg2                      *)
(*   one    def func(arg1, arg2=5): return (arg1,)                         *)
(*   lst1   def func(arg1, arg2=5): return [arg1]                          *)
(*   lst3   def func(arg1, arg2=5): return [arg1, arg2, arg1]              *)
(*   fail   def func(arg1, arg2=5): raise ValueError(arg1)                 *)
(***************************************************************************)
Functions == {"add", "pair", "one", "lst1", "lst3", "fail"}

\* the default of arg2 in the definitions above
Arg2Default == 5

\* mutant: every input name is passed, defined or not
FunctionArgsAll(names, inp) == Range(names)

\* args = {name: value for the defined inputs}
FunctionArgs(names, inp) == {name \in Range(names) : isdefined(inp[name])}

\* ns[function_name](**args): the exception it raises ("" when none) and
\* the value it returns
Call(fn, args, inp) ==
  IF "arg1" \notin args THEN [exc |-> "TypeError", ret |-> None]
  ELSE LET arg1 == inp["arg1"].a
           arg2 == IF "arg2" \in args THEN inp["arg2"].a ELSE Int_(Arg2Default)
       IN  CASE fn = "add"  -> [exc |-> "", ret |-> Scalar(Int_(arg1.n + arg2.n))]
             [] fn = "pair" -> [exc |-> "", ret |-> Tuple(<<arg1, arg2>>)]
             [] fn = "one"  -> [exc |-> "", ret |-> Tuple(<<arg1>>)]
             [] fn = "lst1" -> [exc |-> "", ret |-> List(<<arg1>>)]
             [] fn = "lst3" -> [exc |-> "", ret |-> List(<<arg1, arg2, arg1>>)]
             [] OTHER       -> [exc |-> "ValueError", ret |-> None]

\* the for loop of lines 271-272: out[idx] is stored name by name until
\* out has no element idx
FunctionUnpack(names, old, seq) ==
  [name \in DOMAIN old |->
     LET idx == CHOOSE i \in DOMAIN names : names[i] = name
     IN  IF idx <= Len(seq) THEN Scalar(seq[idx]) ELSE old[name]]

\* _run_interface: the exception that leaves it, the returncode of the
\* runtime it returns, and self._out afterwards
FunctionRunInterface(fn, innames, outnames, inp, old) ==
  LET r == Call(fn, FunctionArgs(innames, inp), inp)
      out == r.ret
      caught == [exc |-> "", returncode |-> 0, out |-> old]
  IN  IF r.exc = "TypeError" THEN caught
      ELSE IF r.exc # "" THEN [exc |-> r.exc, returncode |-> 0, out |-> old]
      ELSE IF Len(outnames) = 1
        THEN [exc |-> "", returncode |-> 0,
              out |-> [old EXCEPT ![outnames[1]] = out]]
      ELSE IF out.k = "tuple" /\ Len(out.l) # Len(outnames)
        THEN [exc |-> "Exception: Mismatch in number of outputs",
              returncode |-> 0, out |-> old]
      ELSE IF out.k \notin {"tuple", "list"} THEN caught
      ELSE IF Len(out.l) < Len(outnames)
        THEN [exc |-> "IndexError", returncode |-> 0,
              out |-> FunctionUnpack(outnames, old, out.l)]
      ELSE [exc |-> "", returncode |-> 0,
            out |-> FunctionUnpack(outnames, old, out.l)]

FunctionAddOutputTraits(outnames) == [key \in Range(outnames) |-> Undefined]

FunctionListOutputs(outnames, o) ==
  LET outputs == FunctionAddOutputTraits(outnames)
  IN  Ok([key \in DOMAIN outputs |-> o[key]])

\* __init__, lines 243-245
FunctionInitOut(outnames) == [name \in Range(outnames) |-> None]

(***************************************************************************)
(* The run() every interface inherits: check the mandatory inputs, call    *)
(* _run_interface, and on returncode 0 aggregate what _list_outputs        *)
(* returns into the output traits.  An exception leaves run().             *)
(***************************************************************************)
Kinds == {"Identity", "Merge", "Split", "Select", "Function"}

Mandatory ==
  CASE kind = "Split"  -> {"inlist", "splits"}
    [] kind = "Select" -> {"inlist", "index"}
    [] OTHER           -> {}

\* IOBase._run_interface only sets returncode 0; Function overrides it
RunInterface(inp, o) ==
  IF kind = "Function"
    THEN FunctionRunInterface(function_str, _input_names, _output_names, inp, o)
    ELSE [exc |-> "", returncode |-> 0, out |-> o]

ListOutputs(inp, o) ==
  CASE kind = "Identity" -> IdentityListOutputs(_fields, inp)
    [] kind = "Merge"    -> MergeListOutputs(numinputs, axis, inp)
    [] kind = "Split"    -> SplitListOutputs(inp)
    [] kind = "Select"   -> SelectListOutputs(inp)
    [] OTHER             -> FunctionListOutputs(_output_names, o)

\* writing a value into an output trait: Select's out is an OutputMultiPath
SetOutputTrait(key, val) ==
  IF kind = "Select" /\ val.k = "list" THEN OutputMultiPath(val.l) ELSE val

aggregate_outputs(inp, o) ==
  LET predicted == ListOutputs(inp, o)
  IN  IF predicted.exc # "" THEN predicted
      ELSE Ok([key \in DOMAIN predicted.outputs |->
                 SetOutputTrait(key, predicted.outputs[key])])

\* run(): the result handed to the caller and self._out afterwards
run(inp, o) ==
  IF \E name \in Mandatory : ~isdefined(inp[name])
    THEN [result |-> Raised("ValueError"), out |-> o]
    ELSE LET runtime == RunInterface(inp, o)
         IN  IF runtime.exc # ""
               THEN [result |-> Raised(runtime.exc), out |-> runtime.out]
               ELSE IF runtime.returncode # 0
                 THEN [result |-> Returned(runtime.returncode, <<>>), out |-> runtime.out]
                 ELSE LET agg == aggregate_outputs(inp, runtime.out)
                      IN  IF agg.exc # ""
                            THEN [result |-> Raised(agg.exc), out |-> runtime.out]
                            ELSE [result |-> Returned(0, agg.outputs), out |-> runtime.out]

(***************************************************************************)
(* The values a caller assigns to an input trait, by interface.            *)
(***************************************************************************)
Lists(S, n) == {List(l) : l \in SeqsUpTo(S, n)}
Ints == {Int_(n) : n \in 0..MaxInt}

InputNames ==
  CASE kind = "Identity" -> Range(_fields)
    [] kind = "Merge"    -> MergeInputNames(numinputs)
    [] kind = "Split"    -> {"inlist", "splits"}
    [] kind = "Select"   -> {"inlist", "index"}
    [] OTHER             -> Range(_input_names)

\* InputMultiPath (Select) stores an empty list as Undefined
InputValues(name) ==
  CASE kind = "Identity" -> {Undefined, None} \cup {Scalar(a) : a \in Atoms}
                               \cup Lists(Atoms, MaxSeq)
    [] kind = "Merge"    -> {Undefined} \cup {Scalar(a) : a \in IntAtoms}
                               \cup Lists(IntAtoms, MaxSeq)
    [] kind = "Split"    -> IF name = "inlist"
                              THEN {Undefined} \cup Lists(Atoms, MaxLen)
                              ELSE {Undefined} \cup Lists(Ints, MaxSeq)
    [] kind = "Select"   -> IF name = "inlist"
                              THEN {Undefined} \cup (Lists(Atoms, MaxLen) \ {List(<<>>)})
                              ELSE {Undefined} \cup (Lists(Ints, MaxSeq) \ {List(<<>>)})
    [] OTHER             -> {Undefined} \cup {Scalar(a) : a \in IntAtoms}

FieldLists == {<<"a">>, <<"a", "b">>, <<"b", "a">>}
OutputNameLists == {<<"out">>, <<"out1", "out2">>}

(***************************************************************************)
(* Construction                                                            *)
(***************************************************************************)
Init ==
  /\ kind \in Kinds
  /\ _fields \in IF kind = "Identity" THEN FieldLists ELSE {<<>>}
  /\ numinputs \in IF kind = "Merge" THEN 0..MaxInputs ELSE {0}
  /\ axis \in IF kind = "Merge" THEN {"vstack", "hstack"} ELSE {"vstack"}
  /\ _input_names = IF kind = "Function" THEN <<"arg1", "arg2">> ELSE <<>>
  /\ _output_names \in IF kind = "Function" THEN OutputNameLists ELSE {<<>>}
  /\ function_str \in IF kind = "Function" THEN Functions ELSE {""}
  /\ inputs = [name \in InputNames |-> Undefined]
  /\ _out = FunctionInitOut(_output_names)
  /\ result = NoResult

\* the caller assigns an input trait
SetInput ==
  \E name \in InputNames : \E v \in InputValues(name) :
    /\ inputs' = [inputs EXCEPT ![name] = v]
    /\ result' = NoResult
    /\ UNCHANGED <<kind, _fields, numinputs, axis, _input_names,
                   _output_names, function_str, _out>>

\* the caller calls run()
Run ==
  /\ result' = run(inputs, _out).result
  /\ _out' = run(inputs, _out).out
  /\ UNCHANGED <<kind, _fields, numinputs, axis, _input_names,
                 _output_names, function_str, inputs>>

Next == SetInput \/ Run

Spec == Init /\ [][Next]_vars

(***************************************************************************)
(* Properties                                                              *)
(***************************************************************************)
Ran == result.status # "none"

\* C1: IdentityInterface.run returns an output whose every assigned field
\* holds its input value and whose every unassigned field is Undefined
\* (never None).
IdentityReproduces ==
  (kind = "Identity" /\ Ran) =>
     /\ result.status = "returned"
     /\ DOMAIN result.outputs = Range(_fields)
     /\ \A f \in Range(_fields) :
          IF inputs[f].k = "undefined"
            THEN result.outputs[f].k = "undefined"
            ELSE result.outputs[f] = inputs[f]

\* C1 witness: a run with one field assigned and another left unassigned
IdentityReproducesWitness ==
  /\ kind = "Identity" /\ result.status = "returned"
  /\ _fields = <<"a", "b">>
  /\ inputs["a"] = Scalar(Str_(2)) /\ inputs["b"] = Undefined
  /\ result.outputs["a"] = Scalar(Str_(2))

\* what input idx contributes to the flat merge
Contribution(idx) ==
  LET v == inputs[InName(idx)]
  IN  CASE v.k = "undefined" -> <<>>
        [] v.k = "list"      -> v.l
        [] OTHER             -> <<v.a>>

RECURSIVE FlatUpTo(_)
FlatUpTo(n) == IF n = 0 THEN <<>> ELSE FlatUpTo(n - 1) \o Contribution(n)

\* C2: in flat mode out is the concatenation, in ascending order of
\* in1..inN, of each defined input's elements (a list) or of the value
\* itself; undefined inputs add nothing.  (With nothing to merge the out
\* trait has no elements: it is left Undefined.)
MergeFlat ==
  (kind = "Merge" /\ axis = "vstack" /\ Ran) =>
     /\ result.status = "returned"
     /\ IF FlatUpTo(numinputs) = <<>>
          THEN ~isdefined(result.outputs.out)
          ELSE result.outputs.out = List(FlatUpTo(numinputs))

\* C2 witness: a scalar followed by a list, flattened one level
MergeFlatWitness ==
  /\ kind = "Merge" /\ axis = "vstack" /\ numinputs = 2
  /\ inputs["in1"] = Scalar(Int_(1))
  /\ inputs["in2"] = List(<<Int_(2), Int_(1)>>)
  /\ result.status = "returned"
  /\ result.outputs.out = List(<<Int_(1), Int_(2), Int_(1)>>)

\* the prefix sum of the first j entries of inputs.splits
Boundary(j) == sum(SubSeq(inputs.splits.l, 1, j))

RECURSIVE ConcatOuts(_)
ConcatOuts(j) ==
  IF j = 0 THEN <<>> ELSE ConcatOuts(j - 1) \o result.outputs[OutName(j)].l

SplitCase ==
  /\ kind = "Split" /\ Ran
  /\ isdefined(inputs.inlist) /\ isdefined(inputs.splits)

\* C3: when the splits sum to len(inlist), outJ is the slice of inlist
\* between the (J-1)-th and J-th prefix sum of splits, it has splits[J-1]
\* elements, and out1..outK concatenated give inlist back exactly.
SplitReconstructs ==
  (SplitCase /\ sum(inputs.splits.l) = Len(inputs.inlist.l)) =>
     /\ result.status = "returned"
     /\ DOMAIN result.outputs = {OutName(j) : j \in 1..Len(inputs.splits.l)}
     /\ \A j \in 1..Len(inputs.splits.l) :
          /\ result.outputs[OutName(j)] =
               List(SubSeq(inputs.inlist.l, Boundary(j - 1) + 1, Boundary(j)))
          /\ Len(result.outputs[OutName(j)].l) = inputs.splits.l[j].n
     /\ ConcatOuts(Len(inputs.splits.l)) = inputs.inlist.l

\* C4: when the splits do not sum to len(inlist), run fails with the
\* RuntimeError and hands back no output.
SplitMismatchFails ==
  (SplitCase /\ sum(inputs.splits.l) # Len(inputs.inlist.l)) =>
     /\ result.status = "raised"
     /\ result.error = "RuntimeError"
     /\ result.outputs = <<>>

\* C4 witness: splits [2, 1] against a two-element inlist
SplitMismatchFailsWitness ==
  /\ SplitCase
  /\ inputs.splits = List(<<Int_(2), Int_(1)>>)
  /\ Len(inputs.inlist.l) = 2
  /\ result.status = "raised"

SelectCase ==
  /\ kind = "Select" /\ Ran
  /\ isdefined(inputs.inlist) /\ isdefined(inputs.index)

\* [inlist[i] for i in index]
Selected ==
  [p \in DOMAIN inputs.index.l |-> inputs.inlist.l[inputs.index.l[p].n + 1]]

\* C5: Select.run yields inlist[i] for i in index, in index order; one
\* index gives the bare element, more give the list; an index >=
\* len(inlist) makes the run fail with an IndexError.
SelectPicks ==
  SelectCase =>
     IF \E p \in DOMAIN inputs.index.l : inputs.index.l[p].n >= Len(inputs.inlist.l)
       THEN result.status = "raised" /\ result.error = "IndexError"
       ELSE /\ result.status = "returned"
            /\ result.outputs.out =
                 IF Len(inputs.index.l) = 1 THEN Scalar(Selected[1]) ELSE List(Selected)

\* the transformation applied to exactly the inputs that are defined
Invocation ==
  Call(function_str, {name \in {"arg1", "arg2"} : inputs[name] # Undefined}, inputs)

\* C6: with one declared output name, run calls the transformation with
\* exactly the defined inputs (its own defaults apply to the others) and
\* the single output field holds the whole return value, unmodified.
FunctionSingleOutput ==
  (kind = "Function" /\ Len(_output_names) = 1 /\ Ran /\ Invocation.exc = "") =>
     /\ result.status = "returned"
     /\ result.outputs = [key \in {_output_names[1]} |-> Invocation.ret]

\* C6 witness: func(arg1, arg2=5) = arg1 + arg2 run with only arg1 = 1
FunctionSingleOutputWitness ==
  /\ kind = "Function" /\ function_str = "add" /\ _output_names = <<"out">>
  /\ inputs["arg1"] = Scalar(Int_(1)) /\ inputs["arg2"] = Undefined
  /\ result.status = "returned"
  /\ result.outputs["out"] = Scalar(Int_(6))

\* C7: with more than one declared output name and a returned sequence of
\* another length, run fails with the mismatch error.
FunctionMismatchFails ==
  (/\ kind = "Function" /\ Len(_output_names) > 1 /\ Ran
   /\ Invocation.exc = ""
   /\ Invocation.ret.k \in {"tuple", "list"}
   /\ Len(Invocation.ret.l) # Len(_output_names)) =>
     /\ result.status = "raised"
     /\ result.error = "Exception: Mismatch in number of outputs"

\* C8: when the transformation raises, the error reaches the caller and
\* the run is not reported as a success.
FunctionErrorPropagates ==
  (kind = "Function" /\ Ran /\ Invocation.exc # "") =>
     /\ result.status = "raised"
     /\ result.error = Invocation.exc

\* C9: what run() hands back is what a freshly constructed node of the
\* same configuration hands back for the same input values.
RunOfInputsAlone ==
  Ran => result = run(inputs, FunctionInitOut(_output_names)).result

HstackCase ==
  /\ kind = "Merge" /\ axis = "hstack" /\ numinputs >= 1 /\ Ran
  /\ \A j \in 1..numinputs : inputs[InName(j)].k = "list"

\* row i of the row merge: [in1[i], ..., inN[i]]
Row(i) == [j \in 1..numinputs |-> inputs[InName(j)].l[i]]

\* the rows of out (an out left Undefined has none)
OutRows == IF isdefined(result.outputs.out) THEN result.outputs.out.r ELSE <<>>

\* C10 as stated: in row mode with N >= 1 inputs that are all sequences,
\* out has len(in1) rows and row i is [in1[i], ..., inN[i]].
MergeRowsAnyLengths ==
  HstackCase =>
     /\ result.status = "returned"
     /\ Len(OutRows) = Len(inputs["in1"].l)
     /\ \A i \in 1..Len(inputs["in1"].l) : OutRows[i] = Row(i)

\* C10 amended: the same, for inputs none of which is shorter than in1.
MergeRows ==
  (HstackCase /\ \A j \in 1..numinputs :
                   Len(inputs[InName(j)].l) >= Len(inputs["in1"].l)) =>
     /\ result.status = "returned"
     /\ Len(OutRows) = Len(inputs["in1"].l)
     /\ \A i \in DOMAIN OutRows : OutRows[i] = Row(i)
     /\ isdefined(result.outputs.out) => result.outputs.out.k = "rows"

\* C10 witness: two two-element inputs merged into two rows
MergeRowsWitness ==
  /\ HstackCase /\ numinputs = 2
  /\ inputs["in1"] = List(<<Int_(1), Int_(2)>>)
  /\ inputs["in2"] = List(<<Int_(2), Int_(2)>>)
  /\ result.status = "returned"
  /\ result.outputs.out = Rows(<<<<Int_(1), Int_(2)>>, <<Int_(2), Int_(2)>>>>)

\* C11: in row mode, when the sequences in in1..inN are not all as long
\* as in1, run fails and hands back no out (no truncated rows).
MergeRowsUnequalFails ==
  (HstackCase /\ \E j \in 1..numinputs :
                   Len(inputs[InName(j)].l) # Len(inputs["in1"].l)) =>
     /\ result.status = "raised"
     /\ result.outputs = <<>>

\* the merge has nothing to put in out: nothing to flatten in flat mode,
\* an empty in1 in row mode
MergeEmpty ==
  IF axis = "vstack"
    THEN FlatUpTo(numinputs) = <<>>
    ELSE numinputs >= 1 /\ inputs["in1"] = List(<<>>)

\* C12: in either mode, when the merged sequence is empty the run leaves
\* out Undefined; a run never hands back an empty sequence in out.
MergeEmptyUndefined ==
  (kind = "Merge" /\ Ran) =>
     /\ MergeEmpty =>
          /\ result.status = "returned"
          /\ result.outputs.out.k = "undefined"
     /\ result.status = "returned" =>
          /\ result.outputs.out # List(<<>>)
          /\ result.outputs.out # Rows(<<>>)
          /\ result.outputs.out.k \in {"undefined", "list", "rows"}

\* C12 witness: a flat merge of an empty list and an undefined input
MergeEmptyUndefinedWitness ==
  /\ kind = "Merge" /\ axis = "vstack" /\ numinputs = 2
  /\ inputs["in1"] = List(<<>>) /\ inputs["in2"] = Undefined
  /\ result.status = "returned"
  /\ result.outputs.out = Undefined

\* the transformation produced no value in this run: its call raised, or
\* (several output names) what it returned cannot be indexed
NothingProduced ==
  \/ Invocation.exc # ""
  \/ Len(_output_names) > 1 /\ Invocation.ret.k \notin {"tuple", "list"}

\* C13: after a Function run that returns, every declared output field
\* the transformation produced no value for is Undefined; when the error
\* was caught and nothing assigned, no output field holds None.
FunctionUnproducedUndefined ==
  (kind = "Function" /\ result.status = "returned" /\ NothingProduced) =>
     \A key \in Range(_output_names) :
        result.outputs[key].k = "undefined"

====
